---- MODULE Spec2Model ----
(***************************************************************************)
(* Note inference of omnizart (omnizart/music/inference.py).               *)
(*                                                                         *)
(* The module is a library of pure functions.  A behaviour is one call:    *)
(* Init draws the arguments of the call (args), the single step of the     *)
(* called function computes what it returns (ret).  Arrays are sequences;  *)
(* frame f of the code (0-based) is element f + 1.  Note lists are         *)
(* sequences of records with the keys the code uses.                       *)
(*                                                                         *)
(* Numbers.  Frames, pitches and velocities are integers.  Strengths and   *)
(* prediction values are drawn from small sets of integers.  Time is       *)
(* counted in milliseconds, so t_unit = 0.02 is 20.  Real arithmetic is    *)
(* exact (rationals by cross multiplication, z-scores by squaring).        *)
(***************************************************************************)
EXTENDS Integers, Sequences, FiniteSets, TLC

VARIABLES pc, args, ret

vars == <<pc, args, ret>>

\* ---------------------------------------------------------------- bounds
\* Frames of a pitch row given to infer_pitch.
FrameLen == 7
\* Largest offset_interval given to infer_pitch.
MaxOffset == 3
\* Largest shortest given to infer_pitch, besides the 10 the code singles out.
MaxShortest == 3
\* Frames of an activity sequence given to find_occur.
OccurLen == 6
\* Longest note list given to to_midi.
MaxNotes == 3
\* Frames of the piece given to infer_piece.
PieceLen == 5
\* (frame, pitch) positions of the interpolated channels in norm_onset_dura.
NormCells == 4
\* Frames of the prediction given to note_inference in a frame mode.
PredLen == 5
\* Largest channel count of a prediction given to multi_inst_note_inference.
MaxChannels == 7
\* Largest channel count of a prediction given to note_inference.
MaxPredChannels == 4

\* ---------------------------------------------------------------- helpers
NoRet == [none |-> TRUE]

Min(S) == CHOOSE x \in S : \A y \in S : x <= y

Max2(a, b) == IF a >= b THEN a ELSE b

RECURSIVE SumSeq(_)
SumSeq(s) == IF s = <<>> THEN 0 ELSE Head(s) + SumSeq(Tail(s))

\* The ascending sequence of the elements of a set of integers.
RECURSIVE Ascending(_)
Ascending(S) == IF S = {} THEN <<>> ELSE <<Min(S)>> \o Ascending(S \ {Min(S)})

\* ------------------------------------------------------------ infer_pitch
\* scipy.signal.find_peaks(w_on, distance=shortest, width=5) is library
\* code.  Its result is an ascending array of interior frames (never the
\* first or the last frame) any two of which are at least `distance` apart;
\* which of the local maxima pass the width filter depends on the real
\* values of w_on.  The model draws the result among all such arrays.
FindPeaksResults(n, distance) ==
    { Ascending(S) : S \in { T \in SUBSET (1 .. n - 2) :
                               \A a, b \in T : a < b => b - a >= distance } }

MutAdjust(shortest) == IF shortest = 10 THEN 5 ELSE 3
\* line 22
Adjust(shortest) == IF shortest = 10 THEN 5 ELSE 2

\* lines 23-25: one provisional note per peak; on[k] is pitch[peaks[k], 2].
ProvisionalNotes(peaks, on, n, adjust) ==
    [k \in 1 .. Len(peaks) |->
        [start |-> peaks[k] - adjust,
         end   |-> IF k < Len(peaks) THEN peaks[k + 1] - adjust ELSE n,
         stren |-> on[k]]]

\* line 31: np.sum(w_dura[i : i + offset_interval]); the slice stops at the
\* end of the array.
WindowSum(w_dura, i, offset_interval) ==
    LET hi == IF i + offset_interval < Len(w_dura) THEN i + offset_interval
              ELSE Len(w_dura)
    IN  SumSeq(SubSeq(w_dura, i + 1, hi))

\* line 29: idx is the 0-based index of the peak, peaks[idx + 1] of the code
\* is element idx + 2 here.
Upper(peaks, idx, n) == IF idx < Len(peaks) - 2 THEN peaks[idx + 2] ELSE n

\* lines 30-36: the frame at which the scan `for i in range(p, upper)`
\* breaks, -1 when it runs to the end without a break.
ScanStop(w_dura, p, upper, offset_interval) ==
    LET zero == { i \in p .. upper - 1 : WindowSum(w_dura, i, offset_interval) = 0 }
    IN  IF zero = {} THEN -1 ELSE Min(zero)

\* lines 38-39: for ii, i in enumerate(del_idx): del notes[i - ii]; del_idx
\* holds 0-based indices.
RECURSIVE DelNotes(_, _, _)
DelNotes(notes, del_idx, ii) ==
    IF ii >= Len(del_idx) THEN notes
    ELSE LET at == del_idx[ii + 1] - ii + 1
         IN  DelNotes(SubSeq(notes, 1, at - 1) \o SubSeq(notes, at + 1, Len(notes)),
                      del_idx, ii + 1)

\* lines 13-41.  Besides the notes returned, the record keeps the locals the
\* refinement loop leaves behind: stop[k], the frame at which the scan of
\* peak k broke (-1: no break), and del_idx.
InferPitch(w_dura, peaks, on, shortest, offset_interval) ==
    IF Len(peaks) = 0 THEN [notes |-> <<>>, stop |-> <<>>, del_idx |-> <<>>]
    ELSE
    LET n      == Len(w_dura)
        adjust == Adjust(shortest)
        prov   == ProvisionalNotes(peaks, on, n, adjust)
        stop   == [k \in 1 .. Len(peaks) |->
                     ScanStop(w_dura, peaks[k], Upper(peaks, k - 1, n), offset_interval)]
        del    == { k \in 1 .. Len(peaks) :
                     stop[k] # -1 /\ stop[k] - prov[k].start < shortest }
        refined == [k \in 1 .. Len(peaks) |->
                     IF stop[k] # -1 /\ k \notin del
                     THEN [prov[k] EXCEPT !.end = stop[k]] ELSE prov[k]]
        del_idx == Ascending({ k - 1 : k \in del })
    IN  [notes |-> DelNotes(refined, del_idx, 0), stop |-> stop, del_idx |-> del_idx]

\* Strengths read from the onset channel at a peak.
StrenVals == {1, 2}

ShortestVals == (1 .. MaxShortest) \cup {10}

\* The first and the last of the 88 pitch rows.
EdgePitches == {0, 87}

InitPitch ==
    /\ pc = "call"
    /\ ret = NoRet
    /\ \E s \in ShortestVals, oi \in 1 .. MaxOffset, d \in [1 .. FrameLen -> {0, 1}] :
         \E p \in FindPeaksResults(FrameLen, s) :
           \E o \in [1 .. Len(p) -> {1}] :
             args = [fn |-> "infer_pitch", w_dura |-> d, peaks |-> p, on |-> o,
                     shortest |-> s, offset_interval |-> oi]

CallInferPitch ==
    /\ pc = "call"
    /\ args.fn = "infer_pitch"
    /\ ret' = InferPitch(args.w_dura, args.peaks, args.on, args.shortest,
                         args.offset_interval)
    /\ pc' = "return"
    /\ UNCHANGED args

NextPitch == CallInferPitch

SpecPitch == InitPitch /\ [][NextPitch]_vars

\* C3 as stated: a row whose duration channel is 0 at every frame yields no
\* note, whatever the onset channel, shortest and offset_interval are.
C3_SilentRowYieldsNoNote ==
    (pc = "return" /\ args.fn = "infer_pitch"
       /\ \A f \in 1 .. Len(args.w_dura) : args.w_dura[f] = 0)
    => ret.notes = <<>>

\* C3 amended: a row whose duration channel is 0 at every frame yields no
\* note when shortest is at least 3 (shortest above the onset adjustment).
C3_SilentRowYieldsNoNoteShortest3 ==
    (pc = "return" /\ args.fn = "infer_pitch" /\ args.shortest >= 3
       /\ \A f \in 1 .. Len(args.w_dura) : args.w_dura[f] = 0)
    => ret.notes = <<>>

C3_Witness ==
    /\ pc = "return" /\ args.fn = "infer_pitch" /\ args.shortest >= 3
    /\ \A f \in 1 .. Len(args.w_dura) : args.w_dura[f] = 0
    /\ Len(args.peaks) >= 2
    /\ Len(ret.del_idx) = Len(args.peaks)
    /\ ret.notes = <<>>

\* C6: the scan of every peak but the last of its row stops before
\* the next peak, so the frame at which a note is shortened or discarded is
\* less than the next peak's frame.
C6_ScanStopsBeforeNextPeak ==
    (pc = "return" /\ args.fn = "infer_pitch")
    => \A k \in 1 .. Len(args.peaks) - 1 :
         ret.stop[k] # -1 => ret.stop[k] < args.peaks[k + 1]

\* ------------------------------------------------------------ infer_piece
\* line 49
min_align_diff == 1

\* round(a / b) of Python for integers a >= 0 and b > 0: half to even.
Round(a, b) ==
    LET q == a \div b
        r == a % b
    IN  IF 2 * r < b THEN q
        ELSE IF 2 * r > b THEN q + 1
        ELSE IF q % 2 = 0 THEN q ELSE q + 1

\* line 56: np.sum(pitch) over every frame and channel of the row.  A row is
\* kept as its duration channel, the peaks of its onset channel with the
\* onset values there, and rest, the sum of all its other entries.
RowSum(row) == SumSeq(row.w_dura) + SumSeq(row.on) + row.rest

\* lines 52-62: the rows in ascending pitch order, from the k-th listed row
\* on.  The rows of the 88 that piece does not list are all zero, and line
\* 56 skips them.
RECURSIVE CollectNotes(_, _, _, _, _)
CollectNotes(piece, pitches, k, shortest, offset_interval) ==
    IF k > Len(pitches) THEN <<>>
    ELSE LET i   == pitches[k]
             row == piece[i]
             pns == IF RowSum(row) <= 0 THEN <<>>
                    ELSE InferPitch(row.w_dura, row.peaks, row.on, shortest,
                                    offset_interval).notes
         IN  [j \in 1 .. Len(pns) |->
                [start |-> pns[j].start, end |-> pns[j].end,
                 stren |-> pns[j].stren, pitch |-> i]]
             \o CollectNotes(piece, pitches, k + 1, shortest, offset_interval)

\* line 65: sorted(notes, key=start) is stable: a note goes after every note
\* already placed whose start is not greater.
InsertByStart(placed, nn) ==
    LET before == Cardinality({ j \in 1 .. Len(placed) : placed[j].start <= nn.start })
    IN  SubSeq(placed, 1, before) \o <<nn>> \o SubSeq(placed, before + 1, Len(placed))

RECURSIVE SortedByStart(_)
SortedByStart(notes) ==
    IF notes = <<>> THEN <<>>
    ELSE InsertByStart(SortedByStart(SubSeq(notes, 1, Len(notes) - 1)),
                       notes[Len(notes)])

\* line 69
NeedsAlign(start_diff) == start_diff < min_align_diff

\* lines 66-73: the loop from note i on.
RECURSIVE AlignLoop(_, _, _)
AlignLoop(notes, i, last_start) ==
    IF i > Len(notes) THEN notes
    ELSE LET start_diff == notes[i].start - last_start
         IN  IF NeedsAlign(start_diff)
             THEN AlignLoop([notes EXCEPT ![i].start = @ - start_diff,
                                          ![i].end = @ - start_diff],
                            i + 1, last_start)
             ELSE AlignLoop(notes, i + 1, notes[i].start)

\* lines 44-75.  sorted is the list after line 65, notes the list returned.
InferPiece(piece, shortest_sec, offset_sec, t_unit) ==
    LET shortest == Round(shortest_sec, t_unit)
        offset_interval == Round(offset_sec, t_unit)
        collected == CollectNotes(piece, Ascending(DOMAIN piece), 1, shortest,
                                  offset_interval)
        sorted == SortedByStart(collected)
    IN  [sorted |-> sorted, notes |-> AlignLoop(sorted, 1, 0)]

\* Duration channels of the rows of a piece: silent, or active over one
\* stretch of frames.
DuraShapes(n) ==
    { [f \in 1 .. n |-> IF a <= f /\ f <= b THEN 1 ELSE 0] : a, b \in 1 .. n }

\* The rows infer_piece may be given when shortest is the peak distance.
PieceRows(n, shortest, strens) ==
    UNION { { [w_dura |-> d, peaks |-> p, on |-> o, rest |-> r] :
                d \in DuraShapes(n), o \in [1 .. Len(p) -> strens], r \in {-10, 0} } :
            p \in FindPeaksResults(n, shortest) }

InitPiece ==
    /\ pc = "call"
    /\ ret = NoRet
    /\ \E tu \in {10, 20, 50} :
         \E pp \in [EdgePitches -> PieceRows(PieceLen, Round(100, tu), {1})] :
           args = [fn |-> "infer_piece", piece |-> pp, shortest_sec |-> 100,
                   offset_sec |-> 120, t_unit |-> tu]

CallInferPiece ==
    /\ pc = "call"
    /\ args.fn = "infer_piece"
    /\ ret' = InferPiece(args.piece, args.shortest_sec, args.offset_sec, args.t_unit)
    /\ pc' = "return"
    /\ UNCHANGED args

NextPiece == CallInferPiece

SpecPiece == InitPiece /\ [][NextPiece]_vars

\* The last accepted start when the pass reaches note i of the sorted list,
\* if a note is snapped exactly when its start is at most tol frames after
\* the last accepted start.
RECURSIVE LastAccepted(_, _, _)
LastAccepted(sorted, i, tol) ==
    IF i = 1 THEN 0
    ELSE LET la == LastAccepted(sorted, i - 1, tol)
         IN  IF sorted[i - 1].start - la <= tol THEN la ELSE sorted[i - 1].start

AlignedWithin(sorted, notes, tol) ==
    /\ Len(notes) = Len(sorted)
    /\ \A i \in 1 .. Len(sorted) :
         LET la == LastAccepted(sorted, i, tol)
         IN  IF sorted[i].start - la <= tol
             THEN /\ notes[i].start = la
                  /\ notes[i].end - notes[i].start = sorted[i].end - sorted[i].start
                  /\ notes[i].pitch = sorted[i].pitch
                  /\ notes[i].stren = sorted[i].stren
             ELSE notes[i] = sorted[i]

\* C10: in the alignment pass a note whose start is at most 1 frame after the
\* last accepted start (initially 0) is moved to that start with its length
\* unchanged; every other note is left unchanged and its start becomes the
\* last accepted start.
C10_SnapWithinOneFrame ==
    (pc = "return" /\ args.fn = "infer_piece")
    => AlignedWithin(ret.sorted, ret.notes, 1)

\* ------------------------------------------------------------- find_occur
MutMeetsMinFrm(last, start, t_unit, min_duration) ==
    (last - start) * t_unit > Max2(t_unit, min_duration)
\* lines 94-95 and the test of lines 106 and 111:
\* last - start >= max(t_unit, min_duration) / t_unit, with t_unit > 0.
MeetsMinFrm(last, start, t_unit, min_duration) ==
    (last - start) * t_unit >= Max2(t_unit, min_duration)

\* line 97: np.where(pitch > 0.5)[0]; the values of pitch are in tenths.
Cand(pitch) == Ascending({ f \in 0 .. Len(pitch) - 1 : pitch[f + 1] > 5 })

\* lines 104-109: the loop over cand, from element k on.
RECURSIVE OccurLoop(_, _, _, _, _, _, _)
OccurLoop(cand, k, start, last, note, t_unit, min_duration) ==
    IF k > Len(cand) THEN [start |-> start, last |-> last, note |-> note]
    ELSE LET cidx == cand[k]
             gap == cidx - last > 1
             note1 == IF gap /\ MeetsMinFrm(last, start, t_unit, min_duration)
                      THEN Append(note, [onset |-> start, offset |-> last])
                      ELSE note
             start1 == IF gap THEN cidx ELSE start
         IN  OccurLoop(cand, k + 1, start1, cidx, note1, t_unit, min_duration)

\* lines 91-113
FindOccur(pitch, t_unit, min_duration) ==
    LET cand == Cand(pitch)
    IN  IF Len(cand) = 0 THEN <<>>
        ELSE LET r == OccurLoop(cand, 1, cand[1], cand[1], <<>>, t_unit, min_duration)
             IN  IF MeetsMinFrm(r.last, r.start, t_unit, min_duration)
                 THEN Append(r.note, [onset |-> r.start, offset |-> r.last])
                 ELSE r.note

\* Frame lengths in milliseconds.
TUnits == {10, 20, 40}

InitOccur ==
    /\ pc = "call"
    /\ ret = NoRet
    /\ \E p \in [1 .. OccurLen -> {0, 5, 10}], tu \in TUnits, md \in {30, 50} :
         args = [fn |-> "find_occur", pitch |-> p, t_unit |-> tu, min_duration |-> md]

CallFindOccur ==
    /\ pc = "call"
    /\ args.fn = "find_occur"
    /\ ret' = FindOccur(args.pitch, args.t_unit, args.min_duration)
    /\ pc' = "return"
    /\ UNCHANGED args

NextOccur == CallFindOccur

SpecOccur == InitOccur /\ [][NextOccur]_vars

\* Frames a .. b are a maximal run of active frames of pitch.
IsRun(pitch, a, b) ==
    /\ a <= b
    /\ \A f \in a .. b : pitch[f + 1] > 5
    /\ (a = 0 \/ pitch[a] <= 5)
    /\ (b = Len(pitch) - 1 \/ pitch[b + 2] <= 5)

Frames(pitch) == 0 .. Len(pitch) - 1

\* C7 as stated: the result holds, in ascending order, exactly one note for
\* each maximal run of active frames whose length in frames is at least
\* max(t_unit, min_duration) / t_unit, with onset the first frame of the run.
C7_RunsOfMinLengthKept ==
    (pc = "return" /\ args.fn = "find_occur")
    => LET kept == { a \in Frames(args.pitch) : \E b \in Frames(args.pitch) :
                       /\ IsRun(args.pitch, a, b)
                       /\ (b - a + 1) * args.t_unit
                            >= Max2(args.t_unit, args.min_duration) }
       IN  [k \in 1 .. Len(ret) |-> ret[k].onset] = Ascending(kept)

\* C7 amended: the result holds, in ascending order, exactly one note for
\* each maximal run of active frames whose last frame is at least
\* max(t_unit, min_duration) / t_unit frames after its first frame (a length
\* of that many frames plus one), with onset the first and offset the last
\* frame of the run.
C7_RunsOfMinSpanKept ==
    (pc = "return" /\ args.fn = "find_occur")
    => LET kept == { a \in Frames(args.pitch) : \E b \in Frames(args.pitch) :
                       /\ IsRun(args.pitch, a, b)
                       /\ (b - a) * args.t_unit
                            >= Max2(args.t_unit, args.min_duration) }
       IN  /\ [k \in 1 .. Len(ret) |-> ret[k].onset] = Ascending(kept)
           /\ \A k \in 1 .. Len(ret) : IsRun(args.pitch, ret[k].onset, ret[k].offset)

C7_Witness ==
    /\ pc = "return" /\ args.fn = "find_occur"
    /\ Len(ret) = 1
    /\ \E a, b \in Frames(args.pitch) :
         /\ IsRun(args.pitch, a, b)
         /\ (b - a + 1) * args.t_unit >= Max2(args.t_unit, args.min_duration)
         /\ (b - a) * args.t_unit < Max2(args.t_unit, args.min_duration)
    /\ \E a, b \in Frames(args.pitch) :
         /\ IsRun(args.pitch, a, b)
         /\ (b - a) * args.t_unit = Max2(args.t_unit, args.min_duration)

\* -------------------------------------------------------- norm_onset_dura
\* A real value num / sqrt(rad): rad = 1 for the integers, rad > 1 for the
\* z-scores, rad = 0 for NaN (the z-score 0 / 0 of a constant array).
Val(num, rad) == [num |-> num, rad |-> rad]

Zero == Val(0, 1)

IsNaN(v) == v.rad = 0

IsZero(v) == v.rad # 0 /\ v.num = 0

\* m * sqrt(R) < k, for R > 0.
SurdLess(m, R, k) ==
    IF m >= 0 THEN k > 0 /\ m * m * R < k * k
    ELSE k >= 0 \/ m * m * R > k * k

\* v < th2 / 2; a comparison with NaN is false.
Less(v, th2) == ~IsNaN(v) /\ SurdLess(-th2, v.rad, -2 * v.num)

Sign(x) == IF x > 0 THEN 1 ELSE IF x < 0 THEN -1 ELSE 0

\* The sign of m1 * sqrt(R1) + m2 * sqrt(R2), for R1, R2 > 0.
SignSurd2(m1, R1, m2, R2) ==
    IF Sign(m1) * Sign(m2) >= 0 THEN Sign(Sign(m1) + Sign(m2))
    ELSE Sign(m1) * Sign(m1 * m1 * R1 - m2 * m2 * R2)

\* a + b < th2 / 2; a comparison with NaN is false.
SumLess(a, b, th2) ==
    /\ ~IsNaN(a)
    /\ ~IsNaN(b)
    /\ LET p  == 2 * a.num
           q  == 2 * b.num
           A  == a.rad
           B  == b.rad
           sL == SignSurd2(p, B, q, A)
           sR == Sign(th2)
           K  == th2 * th2 * A * B - p * p * B - q * q * A
       IN  IF sL # sR THEN sL < sR
           ELSE IF sL = 0 THEN FALSE
           ELSE IF sL > 0 THEN SurdLess(2 * p * q, A * B, K)
           ELSE SurdLess(-2 * p * q, A * B, -K)

RECURSIVE SumSquares(_)
SumSquares(s) == IF s = <<>> THEN 0 ELSE Head(s) * Head(s) + SumSquares(Tail(s))

\* lines 158-159: (data - np.mean(data)) / np.std(data), mean and deviation
\* over all the positions; n * x - S over sqrt(n * Q - S * S).
Norm(data) ==
    LET n == Len(data)
        S == SumSeq(data)
        Q == SumSquares(data)
    IN  [i \in 1 .. n |-> Val(n * data[i] - S, n * Q - S * S)]

Raw(data) == [i \in 1 .. Len(data) |-> Val(data[i], 1)]

MutClipOnset(onset, dura) ==
    [i \in 1 .. Len(onset) |-> IF onset[i] < dura[i] - 1 THEN 0 ELSE onset[i]]
\* line 170
ClipOnset(onset, dura) ==
    [i \in 1 .. Len(onset) |-> IF onset[i] < dura[i] THEN 0 ELSE onset[i]]

\* lines 162-179, from line 170 on.  onset and dura are the arrays lines 167
\* and 168 get from the cubic spline of scipy (library code), their positions
\* flattened; thresholds are counted in halves.  The channels returned are
\* norm_pred[:, :, 2] and norm_pred[:, :, 1]; an entry of the duration
\* channel is zero or the sum d + o.
NormOnsetDura(onset, dura, onset_th, dura_th, normalize) ==
    LET clipped    == ClipOnset(onset, dura)
        norm_onset == IF normalize THEN Norm(clipped) ELSE Raw(clipped)
        onset_out  == [i \in 1 .. Len(onset) |->
                         IF Less(norm_onset[i], onset_th) THEN Zero ELSE norm_onset[i]]
        dura_n     == IF normalize THEN Norm(dura) ELSE Raw(dura)
        dura_out   == [i \in 1 .. Len(dura) |->
                         IF SumLess(dura_n[i], onset_out[i], dura_th)
                         THEN [zero |-> TRUE, d |-> Zero, o |-> Zero]
                         ELSE [zero |-> FALSE, d |-> dura_n[i], o |-> onset_out[i]]]
    IN  [onset |-> onset_out, dura |-> dura_out]

\* Values of the interpolated prediction channels.
PredVals == {-1, 0, 1}

InitNorm ==
    /\ pc = "call"
    /\ ret = NoRet
    /\ \E o \in [1 .. NormCells -> PredVals], d \in [1 .. NormCells -> PredVals],
          oth \in {-3, 1, 3}, nz \in BOOLEAN :
         args = [fn |-> "norm_onset_dura", onset |-> o, dura |-> d, onset_th |-> oth,
                 dura_th |-> 4, normalize |-> nz]

CallNormOnsetDura ==
    /\ pc = "call"
    /\ args.fn = "norm_onset_dura"
    /\ ret' = NormOnsetDura(args.onset, args.dura, args.onset_th, args.dura_th,
                             args.normalize)
    /\ pc' = "return"
    /\ UNCHANGED args

NextNorm == CallNormOnsetDura

SpecNorm == InitNorm /\ [][NextNorm]_vars

\* C8 as stated: where the un-normalized onset is less than or equal to the
\* un-normalized duration, the onset channel of the output is 0, for every
\* onset threshold.
C8_OnsetNotAboveDuraIsZero ==
    (pc = "return" /\ args.fn = "norm_onset_dura")
    => \A i \in 1 .. Len(args.onset) :
         args.onset[i] <= args.dura[i] => IsZero(ret.onset[i])

\* C8 amended: where the un-normalized onset is strictly less than the
\* un-normalized duration, and normalize is off, the onset channel of the
\* output is 0, for every onset threshold.
C8_OnsetBelowDuraIsZeroUnnormalized ==
    (pc = "return" /\ args.fn = "norm_onset_dura" /\ ~args.normalize)
    => \A i \in 1 .. Len(args.onset) :
         args.onset[i] < args.dura[i] => IsZero(ret.onset[i])

C8_Witness ==
    /\ pc = "return" /\ args.fn = "norm_onset_dura" /\ ~args.normalize
    /\ args.onset_th < 0
    /\ \E i \in 1 .. Len(args.onset) :
         /\ args.onset[i] # 0
         /\ args.onset[i] < args.dura[i]
         /\ IsZero(ret.onset[i])
    /\ \E i \in 1 .. Len(args.onset) :
         /\ args.onset[i] = args.dura[i]
         /\ ~IsZero(ret.onset[i])

\* ---------------------------------------------------------------- to_midi
\* line 79
MIN_INIT == 999
\* line 80
MAX_INIT == 0
\* line 124
s_low == 60
\* line 125
s_up == 127
\* line 128: note_to_midi("A0")
low_b == 21

\* lines 78-88
RECURSIVE MinMaxLoop(_, _, _, _)
MinMaxLoop(notes, k, MIN, MAX) ==
    IF k > Len(notes) THEN <<MIN, MAX>>
    ELSE LET nn_s == notes[k].stren
         IN  MinMaxLoop(notes, k + 1,
                        IF nn_s < MIN THEN nn_s ELSE MIN,
                        IF nn_s > MAX THEN nn_s ELSE MAX)

FindMinMaxStren(notes) == MinMaxLoop(notes, 1, MIN_INIT, MAX_INIT)

\* int(x) of Python for the rational num / den, den > 0: towards zero.
TruncDiv(num, den) == IF num >= 0 THEN num \div den ELSE -((-num) \div den)

\* int(base + num / den) of Python for integers base and den > 0: towards
\* zero.
PyInt(base, num, den) ==
    IF base + (num \div den) >= 0 THEN base + (num \div den)
    ELSE base - ((-num) \div den)

MutVMap(stren, l, u) ==
    PyInt(s_low, (s_up - s_low) * stren * 10000, (u - l) * 10000 + 1)
\* line 126: int(s_low + (s_up - s_low) * ((stren - l) / (u - l + 0.0001)))
VMap(stren, l, u) ==
    PyInt(s_low, (s_up - s_low) * (stren - l) * 10000, (u - l) * 10000 + 1)

\* lines 116-139: the notes of the one instrument of the MIDI object.
ToMidi(notes, t_unit) ==
    LET lu == FindMinMaxStren(notes)
    IN  [k \in 1 .. Len(notes) |->
           [velocity |-> VMap(notes[k].stren, lu[1], lu[2]),
            pitch    |-> notes[k].pitch + low_b,
            start    |-> notes[k].start * t_unit,
            end      |-> notes[k].end * t_unit]]

\* Strengths of the notes given to to_midi.
MidiStrens == {-5, 0, 1, 999, 1000, 1500}

InitMidi ==
    /\ pc = "call"
    /\ ret = NoRet
    /\ \E n \in 0 .. MaxNotes, tu \in TUnits :
         \E ps \in [1 .. n -> EdgePitches], ss \in [1 .. n -> MidiStrens] :
           args = [fn |-> "to_midi", t_unit |-> tu,
                   notes |-> [k \in 1 .. n |->
                                [pitch |-> ps[k], start |-> k - 1, end |-> k + 1,
                                 stren |-> ss[k]]]]

CallToMidi ==
    /\ pc = "call"
    /\ args.fn = "to_midi"
    /\ ret' = ToMidi(args.notes, args.t_unit)
    /\ pc' = "return"
    /\ UNCHANGED args

NextMidi == CallToMidi

SpecMidi == InitMidi /\ [][NextMidi]_vars

\* C4: when all the notes given to to_midi have the same strength,
\* whatever it is, every note produced has velocity 60.
C4_EqualStrengthsGiveVelocity60 ==
    (pc = "return" /\ args.fn = "to_midi" /\ Len(args.notes) > 0
       /\ \A j, k \in 1 .. Len(args.notes) : args.notes[j].stren = args.notes[k].stren)
    => \A k \in 1 .. Len(ret) : ret[k].velocity = 60

\* --------------------------------------------------------- note_inference
\* Mode strings are sequences of characters, so that startswith and endswith
\* are computed as the code computes them.
ModeNote == <<"n", "o", "t", "e">>
ModeFrame == <<"f", "r", "a", "m", "e">>
StreamSuffix == <<"-", "s", "t", "r", "e", "a", "m">>
ModeNoteStream == ModeNote \o StreamSuffix
ModeFrameStream == ModeFrame \o StreamSuffix
ModeTrueFrame == <<"t", "r", "u", "e", "_", "f", "r", "a", "m", "e">>
ModeUnknown == <<"u", "n", "k", "n", "o", "w", "n">>

Modes == {ModeNote, ModeNoteStream, ModeFrame, ModeFrameStream, ModeTrueFrame,
          ModeUnknown}

StartsWith(str, prefix) ==
    Len(str) >= Len(prefix) /\ SubSeq(str, 1, Len(prefix)) = prefix

EndsWith(str, suffix) ==
    Len(str) >= Len(suffix)
    /\ SubSeq(str, Len(str) - Len(suffix) + 1, Len(str)) = suffix

\* What a call that raises leaves: no score.
Raised(error) == [error |-> error, notes |-> <<>>, midi |-> <<>>]

\* lines 277-280: the magnitude of one column of the prediction; ch1 and ch2
\* are pred[:, c, 1] and pred[:, c, 2].  The values are even, so the mean is
\* an integer.
Mix(ch1, ch2, ch_num) ==
    IF ch_num = 2 THEN ch1
    ELSE [f \in 1 .. Len(ch1) |-> (ch1[f] + ch2[f]) \div 2]

\* line 296: int(nn["onset"] * t_unit), t_unit in milliseconds.
StrenFrame(onset, t_unit) == TruncDiv(onset * t_unit, 1000)

MutFrameChannelsKnown(ch_num) == ch_num >= 2
\* lines 277-282
FrameChannelsKnown(ch_num) == ch_num = 2 \/ ch_num = 3

\* lines 284-298.  lines 284-286 binarize the magnitude and take it through
\* roll_down_sample, which the repository keeps in omnizart/music/utils.py;
\* data.prob is the column prob[:, data.idx] they give (0 or 1, in tenths),
\* and the columns of the other pitches are silent.  Column idx * 4 of mix
\* is the first of the columns roll_down_sample folds into column idx.
FrameNotes(data, ch_num, t_unit) ==
    LET mix    == Mix(data.ch1, data.ch2, ch_num)
        p_note == FindOccur(data.prob, t_unit, 30)
    IN  [k \in 1 .. Len(p_note) |->
           [pitch |-> data.idx,
            start |-> p_note[k].onset,
            end   |-> p_note[k].offset,
            stren |-> mix[StrenFrame(p_note[k].onset, t_unit) + 1]]]

\* lines 257, 275-282 and 301-302: what the call raises, "none" when it
\* returns.  In a note mode norm_onset_dura reads channel 2 (line 167).
NoteInferenceError(mode, ch_num) ==
    IF StartsWith(mode, ModeNote)
    THEN IF ch_num < 3 THEN "IndexError" ELSE "none"
    ELSE IF StartsWith(mode, ModeFrame) \/ mode = ModeTrueFrame
    THEN IF FrameChannelsKnown(ch_num) THEN "none"
         ELSE "ValueError: Unknown channel length"
    ELSE "ValueError: Supported mode are"

\* lines 246-304.  In the note modes lines 258-271 normalize the prediction
\* and take it through down_sample of omnizart/music/utils.py; data.piece is
\* the piece that reaches infer_piece.  notes is the note list given to
\* to_midi, midi the notes of the score returned.
NoteInference(mode, ch_num, t_unit, data) ==
    IF NoteInferenceError(mode, ch_num) # "none"
    THEN Raised(NoteInferenceError(mode, ch_num))
    ELSE IF StartsWith(mode, ModeNote)
    THEN LET notes == InferPiece(data.piece, 100, 120, 10).notes
         IN  [error |-> "none", notes |-> notes, midi |-> ToMidi(notes, t_unit \div 2)]
    ELSE LET notes == FrameNotes(data, ch_num, t_unit)
         IN  [error |-> "none", notes |-> notes, midi |-> ToMidi(notes, t_unit)]

NoData == [kind |-> "none"]

\* Values of the prediction channels in a frame mode (even).
FrameVals == {-2, 2000}

FrameData(n) ==
    { [kind |-> "frames", idx |-> i, ch1 |-> c, ch2 |-> [f \in 1 .. n |-> 2],
       prob |-> p] :
        i \in EdgePitches, c \in [1 .. n -> FrameVals], p \in [1 .. n -> {0, 10}] }

SilentRow(n) == [w_dura |-> [f \in 1 .. n |-> 0], peaks |-> <<>>, on |-> <<>>, rest |-> 0]

SoundingRow(n, stren) ==
    [w_dura |-> [f \in 1 .. n |-> 1], peaks |-> <<1>>, on |-> <<stren>>, rest |-> 0]

\* Pieces that reach infer_piece from note_inference (shortest is 10 there):
\* any row at the lowest pitch, a silent or a sustained row at the highest.
PieceData(n) ==
    { [kind |-> "piece", piece |-> [q \in EdgePitches |-> IF q = 0 THEN lo ELSE hi]] :
        lo \in { r \in PieceRows(n, 10, StrenVals) : r.rest = 0 },
        hi \in {SilentRow(n)} \cup { SoundingRow(n, st) : st \in StrenVals } }

\* The data a call of note_inference reads: none when it raises before.
DataRead(mode, ch_num, nf, np) ==
    IF NoteInferenceError(mode, ch_num) # "none" THEN {NoData}
    ELSE IF StartsWith(mode, ModeNote) THEN PieceData(np)
    ELSE FrameData(nf)

\* Frame lengths in milliseconds given to note_inference.
InferTUnits == {20, 500, 1000}

InitNoteInference ==
    /\ pc = "call"
    /\ ret = NoRet
    /\ \E m \in Modes, c \in 1 .. MaxPredChannels, tu \in InferTUnits :
         \E d \in DataRead(m, c, PredLen, PieceLen) :
           args = [fn |-> "note_inference", mode |-> m, ch_num |-> c, t_unit |-> tu,
                   data |-> d]

CallNoteInference ==
    /\ pc = "call"
    /\ args.fn = "note_inference"
    /\ ret' = NoteInference(args.mode, args.ch_num, args.t_unit, args.data)
    /\ pc' = "return"
    /\ UNCHANGED args

\* ---------------------------------------------- multi_inst_note_inference
\* lines 354-363: 0 when the mode is none of the five (raise ValueError).
ChPerInst(mode) ==
    IF mode = ModeNoteStream \/ mode = ModeNote THEN 2
    ELSE IF mode = ModeFrameStream \/ mode = ModeFrame THEN 2
    ELSE IF mode = ModeTrueFrame THEN 1
    ELSE 0

\* line 360
ModeUsed(mode) == IF mode = ModeTrueFrame THEN ModeFrame ELSE mode

\* line 374
Merged(mode) == ~EndsWith(ModeUsed(mode), StreamSuffix) /\ ModeUsed(mode) # ModeTrueFrame

\* lines 367 and 377
Iters(mode, channels) ==
    IF Merged(mode) THEN 1 ELSE (channels - 1) \div ChPerInst(mode)

MutGated(iters, std, ch_per_inst, inst_th) ==
    iters > 1 /\ std <= inst_th * ch_per_inst
\* line 403: iters > 1 and (std / ch_per_inst < inst_th); std is the sum of
\* the deviations of the instrument's channels, in hundredths like inst_th.
Gated(iters, std, ch_per_inst, inst_th) ==
    iters > 1 /\ std < inst_th * ch_per_inst

\* lines 389-421: the loop from instrument i (0-based) on.  inst[i + 1].std
\* holds np.std of each channel of instrument i (line 395, numpy), and
\* inst[i + 1].data what note_inference reads of pp.  A track keeps the
\* index of its instrument, its program and its notes.
RECURSIVE InstLoop(_, _, _, _, _, _, _, _)
InstLoop(i, iters, mode, inst, inst_th, t_unit, mapping, tracks) ==
    IF i >= iters THEN [error |-> "none", tracks |-> tracks]
    ELSE IF Gated(iters, SumSeq(inst[i + 1].std), ChPerInst(mode), inst_th)
    THEN InstLoop(i + 1, iters, mode, inst, inst_th, t_unit, mapping, tracks)
    ELSE LET midi == NoteInference(ModeUsed(mode), 1 + ChPerInst(mode), t_unit,
                                   inst[i + 1].data)
         IN  IF midi.error # "none" THEN [error |-> midi.error, tracks |-> <<>>]
             ELSE IF i + 1 > Len(mapping) THEN [error |-> "IndexError", tracks |-> <<>>]
             ELSE InstLoop(i + 1, iters, mode, inst, inst_th, t_unit, mapping,
                           Append(tracks, [inst |-> i, program |-> mapping[i + 1],
                                           notes |-> midi.midi]))

\* lines 354-385: what the call raises before the loop, "none" when it
\* reaches it.  channels is pred.shape[-1]; onset_th_len is 0 for a scalar
\* onset_th and the length of the list otherwise (lines 222-228).  With no
\* instrument channel, line 380 indexes an empty axis.
MultiInstError(mode, channels, onset_th_len) ==
    IF ChPerInst(mode) = 0 THEN "ValueError"
    ELSE IF (channels - 1) % ChPerInst(mode) # 0 THEN "AssertionError"
    ELSE IF Merged(mode) /\ channels = 1 THEN "IndexError"
    ELSE IF onset_th_len # 0 /\ onset_th_len # Iters(mode, channels)
    THEN "AssertionError"
    ELSE "none"

\* lines 307-423
MultiInstNoteInference(mode, channels, inst, onset_th_len, inst_th, t_unit, mapping) ==
    IF MultiInstError(mode, channels, onset_th_len) # "none"
    THEN [error |-> MultiInstError(mode, channels, onset_th_len), tracks |-> <<>>]
    ELSE InstLoop(0, Iters(mode, channels), mode, inst, inst_th, t_unit, mapping, <<>>)

\* What note_inference reads of the prediction of one instrument.
InstData(mode, n) ==
    IF StartsWith(mode, ModeNote)
    THEN { [kind |-> "piece",
            piece |-> [q \in EdgePitches |->
                         IF q = i THEN SoundingRow(n, st) ELSE SilentRow(n)]] :
             i \in EdgePitches, st \in StrenVals }
    ELSE { [kind |-> "frames", idx |-> i, ch1 |-> [f \in 1 .. n |-> 2000],
            ch2 |-> [f \in 1 .. n |-> 2], prob |-> [f \in 1 .. n |-> pr]] :
             i \in EdgePitches, pr \in {0, 10} }

\* Standard deviations of a channel, in hundredths.
StdVals == {90, 100}

\* The instruments the loop of a call reads: none when it raises before.
InstRead(mode, channels, onset_th_len) ==
    IF MultiInstError(mode, channels, onset_th_len) # "none" THEN {<<>>}
    ELSE [1 .. Iters(mode, channels) ->
            { [std |-> sd, data |-> d] :
                sd \in [1 .. ChPerInst(mode) -> StdVals], d \in InstData(mode, 3) }]

InitMultiInst ==
    /\ pc = "call"
    /\ ret = NoRet
    /\ \E m \in Modes, c \in 1 .. MaxChannels, ol \in 0 .. 3, th \in {95, 100} :
         \E ins \in InstRead(m, c, ol) :
           args = [fn |-> "multi_inst_note_inference", mode |-> m, channels |-> c,
                   inst |-> ins, onset_th_len |-> ol, inst_th |-> th, t_unit |-> 20,
                   channel_program_mapping |-> <<0, 40, 73>>]

CallMultiInstNoteInference ==
    /\ pc = "call"
    /\ args.fn = "multi_inst_note_inference"
    /\ ret' = MultiInstNoteInference(args.mode, args.channels, args.inst,
                                     args.onset_th_len, args.inst_th, args.t_unit,
                                     args.channel_program_mapping)
    /\ pc' = "return"
    /\ UNCHANGED args

Init == InitNoteInference \/ InitMultiInst

Next == CallNoteInference \/ CallMultiInstNoteInference

Spec == Init /\ [][Next]_vars

\* The notes of the score a call returned.
RECURSIVE TrackNotes(_)
TrackNotes(tracks) ==
    IF tracks = <<>> THEN <<>> ELSE Head(tracks).notes \o TrackNotes(Tail(tracks))

ScoreNotes ==
    IF args.fn = "note_inference" THEN ret.midi ELSE TrackNotes(ret.tracks)

\* C1: every note of a score produced by note_inference or
\* multi_inst_note_inference starts before it ends, has a pitch in 21..108
\* and a velocity in 60..127.
C1_NotesWellFormed ==
    pc = "return"
    => \A k \in 1 .. Len(ScoreNotes) :
         /\ ScoreNotes[k].start < ScoreNotes[k].end
         /\ 21 <= ScoreNotes[k].pitch /\ ScoreNotes[k].pitch <= 108
         /\ 60 <= ScoreNotes[k].velocity /\ ScoreNotes[k].velocity <= 127

C1_Witness ==
    /\ pc = "return"
    /\ args.fn = "note_inference"
    /\ \E j, k \in 1 .. Len(ret.midi) :
         /\ ret.midi[j].pitch = 21 /\ ret.midi[k].pitch = 108
         /\ ret.midi[j].velocity = 60 /\ ret.midi[k].velocity > 100
         /\ ret.midi[k].start < ret.midi[k].end

InFrameMode == StartsWith(args.mode, ModeFrame) \/ args.mode = ModeTrueFrame

\* C5: note_inference in a frame mode fails, and returns no score, when the
\* channel count of the prediction is not 2 or 3; with 2 or 3 channels it
\* does not fail for this reason.
C5_FrameModeChannelCount ==
    (pc = "return" /\ args.fn = "note_inference" /\ InFrameMode)
    => IF args.ch_num \in {2, 3}
       THEN ret.error # "ValueError: Unknown channel length"
       ELSE ret.error = "ValueError: Unknown channel length" /\ ret.midi = <<>>

C5_Witness ==
    /\ pc = "return" /\ args.fn = "note_inference" /\ args.mode = ModeFrame
    /\ args.ch_num = 4
    /\ ret.error = "ValueError: Unknown channel length"

\* C9: in the frame branch of note_inference the strength of every
\* retained note is the magnitude mix at the note's onset frame, in the
\* note's pitch column.
C9_StrengthReadAtOnsetFrame ==
    (pc = "return" /\ args.fn = "note_inference" /\ InFrameMode /\ ret.error = "none")
    => \A k \in 1 .. Len(ret.notes) :
         ret.notes[k].stren
           = Mix(args.data.ch1, args.data.ch2, args.ch_num)[ret.notes[k].start + 1]

InStreamMode == args.mode = ModeNoteStream \/ args.mode = ModeFrameStream

HasTrack(i) == \E k \in 1 .. Len(ret.tracks) : ret.tracks[k].inst = i

\* The sum of the channel deviations of instrument i (0-based) against
\* inst_th times the channel count: the mean deviation against inst_th.
\* C2 as stated: in a stream mode with more than one instrument, an
\* instrument whose mean channel deviation equals inst_th, or is below it,
\* has no track in the score.
C2_AtOrBelowThresholdExcluded ==
    (pc = "return" /\ args.fn = "multi_inst_note_inference" /\ InStreamMode
       /\ ret.error = "none" /\ Len(args.inst) > 1)
    => \A i \in 0 .. Len(args.inst) - 1 :
         SumSeq(args.inst[i + 1].std) <= args.inst_th * Len(args.inst[i + 1].std)
         => ~HasTrack(i)

\* C2 amended: in a stream mode with more than one instrument, an instrument
\* whose mean channel deviation is below inst_th has no track in the score,
\* and an instrument whose mean channel deviation equals inst_th has one.
C2_BelowThresholdExcluded ==
    (pc = "return" /\ args.fn = "multi_inst_note_inference" /\ InStreamMode
       /\ ret.error = "none" /\ Len(args.inst) > 1)
    => \A i \in 0 .. Len(args.inst) - 1 :
         LET std == SumSeq(args.inst[i + 1].std)
             th  == args.inst_th * Len(args.inst[i + 1].std)
         IN  /\ std < th => ~HasTrack(i)
             /\ std = th => HasTrack(i)

C2_Witness ==
    /\ pc = "return" /\ args.fn = "multi_inst_note_inference" /\ InStreamMode
    /\ ret.error = "none" /\ Len(args.inst) = 3
    /\ SumSeq(args.inst[1].std) < args.inst_th * 2 /\ ~HasTrack(0)
    /\ SumSeq(args.inst[2].std) = args.inst_th * 2 /\ HasTrack(1)
    /\ SumSeq(args.inst[3].std) > args.inst_th * 2 /\ HasTrack(2)

====
